---- MODULE Spec2Model ----
(***************************************************************************)
(* Model of the memory relevance ranker getRelevantMemories                *)
(* (src/src/services/geminiService.ts).                                    *)
(*                                                                         *)
(* A string is a sequence of one-character strings.  A score is a          *)
(* rational number kept as an integer numerator over the denominator       *)
(* 5 * memories.length: the only non-integer operations of the code are    *)
(* the factor (1 + matchCount * 0.2) and the term (index / N) * 5, and     *)
(* both are exact multiples of 1 / (5 * N).  The arithmetic is exact; the  *)
(* rounding of the IEEE doubles of the code is not modelled.               *)
(***************************************************************************)
EXTENDS Integers, Sequences, FiniteSets, TLC

VARIABLES
    query,       \* argument query
    memories,    \* argument memories
    limit,       \* argument limit
    pc,          \* "start" before the call, then the return statement reached
    queryWords,  \* local queryWords
    scored,      \* local scoredMemories as returned by memories.map
    sorted,      \* local sorted (the same array after the in-place sort)
    result,      \* the value returned
    \* state of the App component (src/unnamed/part_000)
    input,             \* the text of the message box
    attachedFiles,     \* the files attached to the next message
    sessions,          \* the chat sessions, each with its messages
    currentSessionId,  \* the id of the session shown
    isLoading,         \* a request is being served
    streamingContent,  \* << >> for null, <<text>> for the text streamed so far
    request            \* the handleSubmit invocations that await their stream,
                       \* each with its locals, in the order they started

rankerVars == <<query, limit, pc, queryWords, scored, sorted, result>>

chatVars == <<input, attachedFiles, sessions, currentSessionId, isLoading,
              streamingContent, request>>

vars == <<query, memories, limit, pc, queryWords, scored, sorted, result,
          input, attachedFiles, sessions, currentSessionId, isLoading,
          streamingContent, request>>

----------------------------------------------------------------------------
(* Characters and the string primitives of the JavaScript runtime.         *)

LowerLetters ==
    {"a","b","c","d","e","f","g","h","i","j","k","l","m",
     "n","o","p","q","r","s","t","u","v","w","x","y","z"}

UpperLetters ==
    <<"A","B","C","D","E","F","G","H","I","J","K","L","M",
      "N","O","P","Q","R","S","T","U","V","W","X","Y","Z">>

LowerOfUpper ==
    <<"a","b","c","d","e","f","g","h","i","j","k","l","m",
      "n","o","p","q","r","s","t","u","v","w","x","y","z">>

UpperToLower ==
    [c \in {UpperLetters[i] : i \in 1..26} |->
        LowerOfUpper[CHOOSE i \in 1..26 : UpperLetters[i] = c]]

Digits == {"0","1","2","3","4","5","6","7","8","9"}

\* \w of a JavaScript regular expression: [A-Za-z0-9_]
IsWordChar(c) ==
    c \in LowerLetters \cup DOMAIN UpperToLower \cup Digits \cup {"_"}

\* \s of a JavaScript regular expression (the ASCII members used here)
IsSpaceChar(c) == c \in {" ", "\t", "\n"}

\* String.prototype.toLowerCase
toLowerCase(s) ==
    [i \in 1..Len(s) |->
        IF s[i] \in DOMAIN UpperToLower THEN UpperToLower[s[i]] ELSE s[i]]

\* Variant: .replace(/[^\w\s]/g, ' '), a blank in place of each stripped
\* character.
StripNonWord_ToSpace(s) ==
    [i \in 1..Len(s) |->
        IF IsWordChar(s[i]) \/ IsSpaceChar(s[i]) THEN s[i] ELSE " "]

\* .replace(/[^\w\s]/g, '')
StripNonWord(s) == SelectSeq(s, LAMBDA c : IsWordChar(c) \/ IsSpaceChar(c))

\* .split(/\s+/): a maximal run of white space is one separator; a
\* separator at either end yields an empty first or last piece, and the
\* empty string yields one empty piece.
RECURSIVE SplitFrom(_, _, _, _)
SplitFrom(s, i, cur, acc) ==
    IF i > Len(s) THEN Append(acc, cur)
    ELSE IF IsSpaceChar(s[i])
         THEN IF i > 1 /\ IsSpaceChar(s[i - 1])
              THEN SplitFrom(s, i + 1, cur, acc)
              ELSE SplitFrom(s, i + 1, << >>, Append(acc, cur))
         ELSE SplitFrom(s, i + 1, Append(cur, s[i]), acc)

SplitSpaces(s) == SplitFrom(s, 1, << >>, << >>)

\* Array.prototype.includes on an array of strings
ArrayIncludes(arr, w) == \E i \in 1..Len(arr) : arr[i] = w

\* String.prototype.includes: w occurs in s as a contiguous substring
StringIncludes(s, w) ==
    \E k \in 0..(Len(s) - Len(w)) :
        \A j \in 1..Len(w) : s[k + j] = w[j]

\* Array.prototype.slice(start, end) with its treatment of negative and
\* out-of-range indices; indices are 0-based as in the code.
RelIndex(n, len) ==
    IF n < 0 THEN (IF len + n < 0 THEN 0 ELSE len + n)
    ELSE (IF n > len THEN len ELSE n)

Slice(arr, start, end) ==
    LET from == RelIndex(start, Len(arr))
        to   == RelIndex(end, Len(arr))
    IN  IF to <= from THEN << >> ELSE SubSeq(arr, from + 1, to)

\* slice(start) with the end argument omitted
SliceFrom(arr, start) == Slice(arr, start, Len(arr))

----------------------------------------------------------------------------
(* getRelevantMemories                                                     *)

\* the, and, for, with, that, this, from, have, what, where, when, how,
\* who, your, mine, about, some, they, them
stopWords ==
    {<<"t","h","e">>,
     <<"a","n","d">>,
     <<"f","o","r">>,
     <<"w","i","t","h">>,
     <<"t","h","a","t">>,
     <<"t","h","i","s">>,
     <<"f","r","o","m">>,
     <<"h","a","v","e">>,
     <<"w","h","a","t">>,
     <<"w","h","e","r","e">>,
     <<"w","h","e","n">>,
     <<"h","o","w">>,
     <<"w","h","o">>,
     <<"y","o","u","r">>,
     <<"m","i","n","e">>,
     <<"a","b","o","u","t">>,
     <<"s","o","m","e">>,
     <<"t","h","e","y">>,
     <<"t","h","e","m">>}

\* Variant: the filter without the length test.
KeepWord_AnyLength(w) == w \notin stopWords

\* Variant: w.length > 1, words of two letters are kept.
KeepWord_TwoLetters(w) == Len(w) > 1 /\ w \notin stopWords

\* Variant: the filter without the stop-word test.
KeepWord_NoStopWords(w) == Len(w) > 2

\* query.toLowerCase().replace(/[^\w\s]/g, '').split(/\s+/)
\*      .filter(w => w.length > 2 && !stopWords.has(w))
KeepWord(w) == Len(w) > 2 /\ w \notin stopWords

Tokenize(q) ==
    SelectSeq(SplitSpaces(StripNonWord(toLowerCase(q))), KeepWord)

\* memoryLower.replace(/[^\w\s]/g, '').split(/\s+/)
MemoryWords(memoryLower) == SplitSpaces(StripNonWord(memoryLower))

\* Variant: two independent ifs, so that an exact match also collects the
\* partial-match score.
WordScore_BothBranches(word, memoryWords, memoryLower) ==
    (IF ArrayIncludes(memoryWords, word) THEN Len(word) * 2 ELSE 0)
      + (IF StringIncludes(memoryLower, word) THEN Len(word) ELSE 0)

\* Variant: an exact match scores as a partial match does.
WordScore_NoExactBoost(word, memoryWords, memoryLower) ==
    IF ArrayIncludes(memoryWords, word) THEN Len(word)
    ELSE IF StringIncludes(memoryLower, word) THEN Len(word)
    ELSE 0

\* What one query word adds to score inside the forEach.
WordScore(word, memoryWords, memoryLower) ==
    IF ArrayIncludes(memoryWords, word) THEN Len(word) * 2
    ELSE IF StringIncludes(memoryLower, word) THEN Len(word)
    ELSE 0

\* What one query word adds to matchCount inside the forEach.
WordMatch(word, memoryWords, memoryLower) ==
    IF ArrayIncludes(memoryWords, word) THEN 1
    ELSE IF StringIncludes(memoryLower, word) THEN 1
    ELSE 0

\* score and matchCount after the forEach over the query words.
RECURSIVE LexicalScore(_, _, _)
LexicalScore(words, memoryWords, memoryLower) ==
    IF words = << >> THEN 0
    ELSE WordScore(Head(words), memoryWords, memoryLower)
           + LexicalScore(Tail(words), memoryWords, memoryLower)

RECURSIVE MatchCount(_, _, _)
MatchCount(words, memoryWords, memoryLower) ==
    IF words = << >> THEN 0
    ELSE WordMatch(Head(words), memoryWords, memoryLower)
           + MatchCount(Tail(words), memoryWords, memoryLower)

\* Variant: matchCount > 0 as the condition of the density boost.
DensityBoost_FromOne(score, matchCount) ==
    IF matchCount > 0 THEN score * (5 + matchCount) ELSE score * 5

\* if (matchCount > 1) score *= (1 + matchCount * 0.2), in fifths:
\* the value is 5 * score after the statement.
DensityBoost(score, matchCount) ==
    IF matchCount > 1 THEN score * (5 + matchCount) ELSE score * 5

\* Variant: index * 5, without the division by memories.length.
RecencyFactor_Undivided(index, n) == 25 * index * n

\* Variant: no recency bias.
RecencyFactor_None(index, n) == 0

\* recencyFactor = (index / memories.length) * 5, over the denominator 5 * n
RecencyFactor(index, n) == 25 * index

\* The callback of memories.map: the final score of the memory at the
\* 0-based position index, as a numerator over 5 * n.
ScoreOf(words, memory, index, n) ==
    LET memoryLower == toLowerCase(memory)
        memoryWords == MemoryWords(memoryLower)
        score       == LexicalScore(words, memoryWords, memoryLower)
        matchCount  == MatchCount(words, memoryWords, memoryLower)
    IN  DensityBoost(score, matchCount) * n + RecencyFactor(index, n)

scoredMemories(words, mems) ==
    [i \in 1..Len(mems) |->
        [memory |-> mems[i],
         score  |-> ScoreOf(words, mems[i], i - 1, Len(mems))]]

\* Variant: the comparator (a, b) => a.score - b.score, ascending.
RECURSIVE InsertByScore_Ascending(_, _)
InsertByScore_Ascending(x, arr) ==
    IF arr = << >> THEN <<x>>
    ELSE IF Head(arr).score < x.score
         THEN <<Head(arr)>> \o InsertByScore_Ascending(x, Tail(arr))
         ELSE <<x>> \o arr

\* Variant: a sort that is not stable, equal scores come out in reverse.
RECURSIVE InsertByScore_TiesLast(_, _)
InsertByScore_TiesLast(x, arr) ==
    IF arr = << >> THEN <<x>>
    ELSE IF Head(arr).score >= x.score
         THEN <<Head(arr)>> \o InsertByScore_TiesLast(x, Tail(arr))
         ELSE <<x>> \o arr

\* Array.prototype.sort with (a, b) => b.score - a.score: descending by
\* score, stable for equal scores.  InsertByScore(x, arr) places x, which
\* precedes every element of arr in the unsorted array, into the sorted arr.
RECURSIVE InsertByScore(_, _)
InsertByScore(x, arr) ==
    IF arr = << >> THEN <<x>>
    ELSE IF Head(arr).score > x.score
         THEN <<Head(arr)>> \o InsertByScore(x, Tail(arr))
         ELSE <<x>> \o arr

RECURSIVE SortByScore(_)
SortByScore(arr) ==
    IF arr = << >> THEN << >>
    ELSE InsertByScore(Head(arr), SortByScore(Tail(arr)))

\* Variant: m.score >= 5.
AboveThreshold_Inclusive(m, n) == m.score >= 25 * n

\* m.score > 5, with the score over the denominator 5 * n
AboveThreshold(m, n) == m.score > 25 * n

\* Variant: the lowercased text is returned in place of the stored memory.
Relevant_Lowercased(srt, n) ==
    LET kept == SelectSeq(srt, LAMBDA m : m.score > 25 * n)
    IN  [i \in 1..Len(kept) |-> toLowerCase(kept[i].memory)]

\* Variant: [...new Set(...)], each text once, at its first position.
Relevant_Unique(srt, n) ==
    LET kept == SelectSeq(srt, LAMBDA m : m.score > 25 * n)
        firsts == {i \in 1..Len(kept) :
                     \A j \in 1..(i - 1) : kept[j].memory # kept[i].memory}
        RECURSIVE Pick(_)
        Pick(i) == IF i > Len(kept) THEN << >>
                   ELSE IF i \in firsts THEN <<kept[i].memory>> \o Pick(i + 1)
                   ELSE Pick(i + 1)
    IN  Pick(1)

\* sorted.filter(m => m.score > 5).map(m => m.memory)
Relevant(srt, n) ==
    LET kept == SelectSeq(srt, LAMBDA m : AboveThreshold(m, n))
    IN  [i \in 1..Len(kept) |-> kept[i].memory]

\* Variant: an array holding one empty string.
EmptyReturn_BlankEntry == << << >> >>

\* return [] of the empty-memories guard
EmptyReturn == << >>

\* Variant: memories.slice(0, limit), the oldest memories.
RecentReturn_Oldest(mems, lim) == Slice(mems, 0, lim)

\* return memories.slice(-limit)
RecentReturn(mems, lim) == SliceFrom(mems, 0 - lim)

\* Variant: return relevant, without the slice.
RankedReturn_Unbounded(relevant, lim) == relevant

\* return relevant.slice(0, limit)
RankedReturn(relevant, lim) == Slice(relevant, 0, lim)

\* Variant: return [] when nothing scores above the threshold.
FallbackReturn_None(mems) == << >>

\* return memories.slice(-3)
FallbackReturn(mems) == SliceFrom(mems, 0 - 3)

\* Variant: the no-match fallback returns memories.slice(-limit).
getRelevantMemories_FallbackLimit(q, mems, lim) ==
    IF Len(mems) = 0
    THEN [ret |-> "line66", queryWords |-> << >>, scored |-> << >>,
          sorted |-> << >>, result |-> EmptyReturn]
    ELSE LET words == Tokenize(q)
         IN  IF Len(words) = 0
             THEN [ret |-> "line78", queryWords |-> words, scored |-> << >>,
                   sorted |-> << >>, result |-> RecentReturn(mems, lim)]
             ELSE LET sc       == scoredMemories(words, mems)
                      srt      == SortByScore(sc)
                      relevant == Relevant(srt, Len(mems))
                  IN  IF Len(relevant) > 0
                      THEN [ret |-> "line121", queryWords |-> words,
                            scored |-> sc, sorted |-> srt,
                            result |-> RankedReturn(relevant, lim)]
                      ELSE [ret |-> "line125", queryWords |-> words,
                            scored |-> sc, sorted |-> srt,
                            result |-> RecentReturn(mems, lim)]

\* Variant: a non-positive limit is rejected with a RangeError.
getRelevantMemories_RejectsLimit(q, mems, lim) ==
    IF lim <= 0
    THEN [ret |-> "throw", queryWords |-> << >>, scored |-> << >>,
          sorted |-> << >>, result |-> << >>]
    ELSE
        IF Len(mems) = 0
        THEN [ret |-> "line66", queryWords |-> << >>, scored |-> << >>,
              sorted |-> << >>, result |-> EmptyReturn]
        ELSE LET words == Tokenize(q)
             IN  IF Len(words) = 0
                 THEN [ret |-> "line78", queryWords |-> words, scored |-> << >>,
                       sorted |-> << >>, result |-> RecentReturn(mems, lim)]
                 ELSE LET sc       == scoredMemories(words, mems)
                          srt      == SortByScore(sc)
                          relevant == Relevant(srt, Len(mems))
                      IN  IF Len(relevant) > 0
                          THEN [ret |-> "line121", queryWords |-> words,
                                scored |-> sc, sorted |-> srt,
                                result |-> RankedReturn(relevant, lim)]
                          ELSE [ret |-> "line125", queryWords |-> words,
                                scored |-> sc, sorted |-> srt,
                                result |-> FallbackReturn(mems)]

\* The whole function: the return statement reached (by its line), the
\* locals as they stand at that return (empty when the function returns
\* before computing them), and the value returned.
getRelevantMemories(q, mems, lim) ==
    IF Len(mems) = 0
    THEN [ret |-> "line66", queryWords |-> << >>, scored |-> << >>,
          sorted |-> << >>, result |-> EmptyReturn]
    ELSE LET words == Tokenize(q)
         IN  IF Len(words) = 0
             THEN [ret |-> "line78", queryWords |-> words, scored |-> << >>,
                   sorted |-> << >>, result |-> RecentReturn(mems, lim)]
             ELSE LET sc       == scoredMemories(words, mems)
                      srt      == SortByScore(sc)
                      relevant == Relevant(srt, Len(mems))
                  IN  IF Len(relevant) > 0
                      THEN [ret |-> "line121", queryWords |-> words,
                            scored |-> sc, sorted |-> srt,
                            result |-> RankedReturn(relevant, lim)]
                      ELSE [ret |-> "line125", queryWords |-> words,
                            scored |-> sc, sorted |-> srt,
                            result |-> FallbackReturn(mems)]

----------------------------------------------------------------------------
(* handleSubmit and its helpers (src/unnamed/part_000)                     *)

\* the default value of the parameter limit
DefaultLimit == 5

\* String.prototype.trim
RECURSIVE TrimStart(_)
TrimStart(s) ==
    IF s # << >> /\ IsSpaceChar(Head(s)) THEN TrimStart(Tail(s)) ELSE s

RECURSIVE TrimEnd(_)
TrimEnd(s) ==
    IF s # << >> /\ IsSpaceChar(s[Len(s)])
    THEN TrimEnd(SubSeq(s, 1, Len(s) - 1))
    ELSE s

Trim(s) == TrimEnd(TrimStart(s))

DigitChars == <<"0","1","2","3","4","5","6","7","8","9">>

\* the decimal digits of a natural number, as template literals print it
RECURSIVE DecimalString(_)
DecimalString(n) ==
    IF n < 10 THEN <<DigitChars[n + 1]>>
    ELSE DecimalString(n \div 10) \o <<DigitChars[(n % 10) + 1]>>

\* Array.prototype.join
RECURSIVE Join(_, _)
Join(parts, sep) ==
    IF parts = << >> THEN << >>
    ELSE IF Len(parts) = 1 THEN parts[1]
    ELSE parts[1] \o sep \o Join(Tail(parts), sep)

\* "RELEVANT USER FACTS (MEMORIES):\n"
MemoriesHeader ==
    <<"R","E","L","E","V","A","N","T"," ","U","S","E","R"," ","F","A","C","T","S"," ","(","M","E","M","O","R","I","E","S",")",":","\n">>

\* Variant: `${i}. ${m}`, numbered from 0.
MemoryLine_ZeroBased(i, m) == DecimalString(i) \o <<".", " ">> \o m

\* `${i + 1}. ${m}` for the memory m at the 0-based position i
MemoryLine(i, m) == DecimalString(i + 1) \o <<".", " ">> \o m

\* The memories part of the systemInstruction template.
MemoryBlock(relevantMemories) ==
    IF Len(relevantMemories) > 0
    THEN MemoriesHeader
           \o Join([i \in 1..Len(relevantMemories) |->
                      MemoryLine(i - 1, relevantMemories[i])], <<"\n">>)
    ELSE << >>

\* "I have attached the following files for context:\n\n"
FilesIntro ==
    <<"I"," ","h","a","v","e"," ","a","t","t","a","c","h","e","d"," ","t","h","e"," ","f","o","l","l","o","w","i","n","g"," ","f","i","l","e","s"," ","f","o","r"," ","c","o","n","t","e","x","t",":","\n","\n">>

\* "FILE: "
FileLabel ==
    <<"F","I","L","E",":"," ">>

\* "\nCONTENT:\n"
ContentLabel ==
    <<"\n","C","O","N","T","E","N","T",":","\n">>

\* "\n\n---\n\n"
FileSeparator ==
    <<"\n","\n","-","-","-","\n","\n">>

\* "\n\nUser Question: "
QuestionLabel ==
    <<"\n","\n","U","s","e","r"," ","Q","u","e","s","t","i","o","n",":"," ">>

\* The prompt sent to the model: the message, preceded by the attached
\* files when there are any.
FullPrompt(messageContent, currentFiles) ==
    IF Len(currentFiles) > 0
    THEN FilesIntro
           \o Join([i \in 1..Len(currentFiles) |->
                      FileLabel \o currentFiles[i].name
                        \o ContentLabel \o currentFiles[i].content],
                   FileSeparator)
           \o QuestionLabel \o messageContent
    ELSE messageContent

\* "New Chat"
NewChatTitle ==
    <<"N","e","w"," ","C","h","a","t">>

\* "I'm sorry, I encountered an error while processing your request. This could be due to a temporary connection issue or rate limiting."
ErrorText ==
    <<"I","'","m"," ","s","o","r","r","y",","," ","I"," ","e","n","c","o","u","n","t","e","r","e","d"," ","a","n"," ","e","r","r","o","r"," ","w","h","i","l","e"," ","p","r","o","c","e","s","s","i","n","g"," ","y","o","u","r"," ","r","e","q","u","e","s","t","."," ","T","h","i","s"," ","c","o","u","l","d"," ","b","e"," ","d","u","e"," ","t","o"," ","a"," ","t","e","m","p","o","r","a","r","y"," ","c","o","n","n","e","c","t","i","o","n"," ","i","s","s","u","e"," ","o","r"," ","r","a","t","e"," ","l","i","m","i","t","i","n","g",".">>

\* The title given to a session by its first message.
FirstTitle(messageContent, files) ==
    IF Len(messageContent) > 30
    THEN SubSeq(messageContent, 1, 30) \o <<".", ".", ".">>
    ELSE IF messageContent # << >> THEN messageContent
    ELSE IF files # << >> /\ files[1].name # << >> THEN files[1].name
    ELSE NewChatTitle

\* sessions.find(s => s.id === currentSessionId) || sessions[0]
CurrentSession(sess, id) ==
    IF \E i \in 1..Len(sess) : sess[i].id = id
    THEN sess[CHOOSE i \in 1..Len(sess) :
                 sess[i].id = id /\ \A j \in 1..(i - 1) : sess[j].id # id]
    ELSE sess[1]

\* messages.filter(m => !m.isError)
WithoutErrors(messages) == SelectSeq(messages, LAMBDA m : ~m.isError)

\* prev.map(s => s.id === id ? {...s, messages, title} : s)
WithSession(sess, id, messages, title) ==
    [i \in 1..Len(sess) |->
        IF sess[i].id = id
        THEN [id |-> id, title |-> title, messages |-> messages]
        ELSE sess[i]]

\* Variant: the message is appended to s.messages as they are.
WithReply_KeepErrors(sess, id, m) ==
    [i \in 1..Len(sess) |->
        IF sess[i].id = id
        THEN [sess[i] EXCEPT !.messages = Append(@, m)]
        ELSE sess[i]]

\* prev.map(s => s.id === id
\*                 ? {...s, messages: [...s.messages.filter(m => !m.isError), m]}
\*                 : s)
WithReply(sess, id, m) ==
    [i \in 1..Len(sess) |->
        IF sess[i].id = id
        THEN [sess[i] EXCEPT !.messages = Append(WithoutErrors(@), m)]
        ELSE sess[i]]

\* history.slice(-15).map(msg => ({role, parts: [{text: msg.content}]}))
History(messages) ==
    LET recent == SliceFrom(messages, 0 - 15)
    IN  [i \in 1..Len(recent) |->
            [role |-> recent[i].role, content |-> recent[i].content]]

----------------------------------------------------------------------------
(* Inputs                                                                  *)

MaxMem == 3
MaxLimit == 5
MaxNegLimit == 1

\* ""
Q_empty ==
    << >>

\* "  "
Q_blank ==
    <<" "," ">>

\* "?!"
Q_punct ==
    <<"?","!">>

\* "the and for"
Q_stop ==
    <<"t","h","e"," ","a","n","d"," ","f","o","r">>

\* "to be"
Q_short ==
    <<"t","o"," ","b","e">>

\* "Cat?"
Q_cat ==
    <<"C","a","t","?">>

\* "apple"
Q_apple ==
    <<"a","p","p","l","e">>

\* "apple cat"
Q_both ==
    <<"a","p","p","l","e"," ","c","a","t">>

\* "zebra"
Q_zebra ==
    <<"z","e","b","r","a">>

\* "widget"
Q_widget ==
    <<"w","i","d","g","e","t">>

\* "Tell me about the user's job"
Q_job ==
    <<"T","e","l","l"," ","m","e"," ","a","b","o","u","t"," ","t","h","e"," ","u","s","e","r","'","s"," ","j","o","b">>

\* "coffee coffee"
Q_coffee2 ==
    <<"c","o","f","f","e","e"," ","c","o","f","f","e","e">>

\* "to the Cat"
Q_thecat ==
    <<"t","o"," ","t","h","e"," ","C","a","t">>

Queries ==
    {Q_empty, Q_blank, Q_punct, Q_stop, Q_short, Q_cat,
     Q_apple, Q_both, Q_zebra, Q_widget, Q_job, Q_coffee2, Q_thecat}

\* "cat nap"
M_catnap ==
    <<"c","a","t"," ","n","a","p">>

\* "Concat it"
M_concat ==
    <<"C","o","n","c","a","t"," ","i","t">>

\* "apple, cat!"
M_applecat ==
    <<"a","p","p","l","e",","," ","c","a","t","!">>

\* "pineapple"
M_pineapple ==
    <<"p","i","n","e","a","p","p","l","e">>

\* "dog"
M_dog ==
    <<"d","o","g">>

\* "widget one"
M_widget1 ==
    <<"w","i","d","g","e","t"," ","o","n","e">>

\* "widget two"
M_widget2 ==
    <<"w","i","d","g","e","t"," ","t","w","o">>

\* "I like apple pie"
M_applepie ==
    <<"I"," ","l","i","k","e"," ","a","p","p","l","e"," ","p","i","e">>

\* "I like an application"
M_application ==
    <<"I"," ","l","i","k","e"," ","a","n"," ","a","p","p","l","i","c","a","t","i","o","n">>

\* "User likes coffee"
M_coffee ==
    <<"U","s","e","r"," ","l","i","k","e","s"," ","c","o","f","f","e","e">>

\* "User is a software engineer"
M_engineer ==
    <<"U","s","e","r"," ","i","s"," ","a"," ","s","o","f","t","w","a","r","e"," ","e","n","g","i","n","e","e","r">>

\* "User lives in Paris"
M_paris ==
    <<"U","s","e","r"," ","l","i","v","e","s"," ","i","n"," ","P","a","r","i","s">>

\* "User prefers concise answers"
M_concise ==
    <<"U","s","e","r"," ","p","r","e","f","e","r","s"," ","c","o","n","c","i","s","e"," ","a","n","s","w","e","r","s">>

\* "User dislikes spicy food"
M_spicy ==
    <<"U","s","e","r"," ","d","i","s","l","i","k","e","s"," ","s","p","i","c","y"," ","f","o","o","d">>

Pool == {M_catnap, M_concat, M_applecat, M_pineapple, M_dog}

\* "Pineapple concat"
M_pinecat ==
    <<"P","i","n","e","a","p","p","l","e"," ","c","o","n","c","a","t">>

\* "Go to the dog"
M_thedog ==
    <<"G","o"," ","t","o"," ","t","h","e"," ","d","o","g">>

UserFacts == <<M_coffee, M_engineer, M_paris, M_concise, M_spicy>>

Scenarios ==
    {UserFacts,
     <<M_widget1, M_widget2>>,
     <<M_applepie, M_application>>,
     <<M_application, M_applepie>>,
     <<M_applepie, M_pinecat>>,
     <<M_thedog, M_catnap>>,
     <<M_dog, M_dog, M_concat, M_dog, M_dog>>,
     <<M_dog, M_dog, M_concat, M_catnap, M_dog>>,
     <<M_catnap, M_dog, M_dog, M_concat, M_dog>>}

MemoryLists ==
    UNION {[1..n -> Pool] : n \in 0..MaxMem} \cup Scenarios

Limits == (0 - MaxNegLimit)..MaxLimit

----------------------------------------------------------------------------
(* The state machine: one call of getRelevantMemories on chosen inputs.    *)

\* The state of the App component when it is mounted with nothing saved:
\* one empty session with id '1'.
InitialSessions ==
    <<[id |-> "1", title |-> NewChatTitle, messages |-> << >>]>>

AppMounted ==
    /\ input = << >>
    /\ attachedFiles = << >>
    /\ sessions = InitialSessions
    /\ currentSessionId = "1"
    /\ isLoading = FALSE
    /\ streamingContent = << >>
    /\ request = << >>

Init ==
    /\ AppMounted
    /\ query \in Queries
    /\ memories \in MemoryLists
    /\ limit \in Limits
    /\ pc = "start"
    /\ queryWords = << >>
    /\ scored = << >>
    /\ sorted = << >>
    /\ result = << >>

\* Variant: memories.splice(-limit) in the no-token fallback, which removes
\* the returned elements from the argument.
Call_Splice ==
    /\ pc = "start"
    /\ LET r == getRelevantMemories(query, memories, limit)
       IN  /\ pc' = r.ret
           /\ queryWords' = r.queryWords
           /\ scored' = r.scored
           /\ sorted' = r.sorted
           /\ result' = r.result
           /\ memories' = IF r.ret = "line78"
                          THEN Slice(memories, 0, Len(memories) - Len(r.result))
                          ELSE memories
    /\ UNCHANGED <<query, limit>>
    /\ UNCHANGED chatVars

Call ==
    /\ pc = "start"
    /\ LET r == getRelevantMemories(query, memories, limit)
       IN  /\ pc' = r.ret
           /\ queryWords' = r.queryWords
           /\ scored' = r.scored
           /\ sorted' = r.sorted
           /\ result' = r.result
    /\ UNCHANGED <<query, memories, limit>>
    /\ UNCHANGED chatVars

Next == Call

Spec == Init /\ [][Next]_vars

----------------------------------------------------------------------------
(* The state machine of the chat: the user types, attaches files, edits    *)
(* the memories, submits and retries; the stream of a request delivers     *)
(* text and then ends or fails.  Timestamps, message feedback and sources  *)
(* are left out.                                                           *)

MaxMessages == 3
MaxChatMem == 1
MaxSessions == 2
DeleteIndices == {0}
MaxChunks == 1

\* "a.txt"
F_name ==
    <<"a",".","t","x","t">>

\* "cat"
F_content ==
    <<"c","a","t">>

\* " dog "
R_dog ==
    <<" ","d","o","g"," ">>

\* "ok"
T_ok ==
    <<"o","k">>

ChatFile == [name |-> F_name, content |-> F_content]

\* "user"
Q_user ==
    <<"u","s","e","r">>

ChatInputs == {Q_empty, Q_user}

NewMemoryInputs == {Q_blank, R_dog}

SixFacts == UserFacts \o <<M_dog>>

ChatMemoryLists == {<< >>, SixFacts}

\* the ids Math.random().toString(36).substring(7) gives to new sessions
NewIds == {"2", "3"}

InitChat ==
    /\ AppMounted
    /\ memories \in ChatMemoryLists
    /\ query = << >>
    /\ limit = DefaultLimit
    /\ pc = "start"
    /\ queryWords = << >>
    /\ scored = << >>
    /\ sorted = << >>
    /\ result = << >>

\* onChange of the message box
SetInput(text) ==
    /\ input' = text
    /\ UNCHANGED <<memories, rankerVars, attachedFiles, sessions,
                   currentSessionId, isLoading, streamingContent, request>>

\* handleFileChange with one file that parses
AttachFile(f) ==
    /\ Len(attachedFiles) < 1
    /\ attachedFiles' = Append(attachedFiles, f)
    /\ UNCHANGED <<memories, rankerVars, input, sessions, currentSessionId,
                   isLoading, streamingContent, request>>

\* the add button of the memory panel
AddMemory(newMemory) ==
    /\ Trim(newMemory) # << >>
    /\ Len(memories) < MaxChatMem
    /\ memories' = Append(memories, Trim(newMemory))
    /\ UNCHANGED <<rankerVars, chatVars>>

\* the delete button of the memory at the 0-based position idx
DeleteMemory(idx) ==
    /\ idx < Len(memories)
    /\ memories' = [i \in 1..(Len(memories) - 1) |->
                       IF i - 1 < idx THEN memories[i] ELSE memories[i + 1]]
    /\ UNCHANGED <<rankerVars, chatVars>>

\* the number of messages of all sessions
RECURSIVE MessageCount(_)
MessageCount(sess) ==
    IF sess = << >> THEN 0
    ELSE Len(Head(sess).messages) + MessageCount(Tail(sess))

\* Variant: the guard without the isLoading test.
SubmitGuard_NoLoading(messageContent, currentFiles) ==
    ~(Trim(messageContent) = << >> /\ Len(currentFiles) = 0)

\* the negation of
\* (!messageContent.trim() && currentFiles.length === 0) || isLoading
SubmitGuard(messageContent, currentFiles) ==
    ~((Trim(messageContent) = << >> /\ Len(currentFiles) = 0) \/ isLoading)

\* handleSubmit(e, retryMessage, retryFiles) up to its await; an absent
\* argument is << >>, a present one <<value>>.  A call that returns at the
\* guard changes nothing and is not a step.
handleSubmit(retryMessage, retryFiles) ==
    LET isRetry        == retryMessage # << >> /\ retryMessage[1] # << >>
        messageContent == IF isRetry THEN retryMessage[1] ELSE input
        currentFiles   == IF retryFiles # << >> THEN retryFiles[1]
                          ELSE attachedFiles
        currentSession == CurrentSession(sessions, currentSessionId)
        fullPrompt     == FullPrompt(messageContent, currentFiles)
        userMessage    == [role |-> "user", content |-> messageContent,
                           isError |-> FALSE,
                           files |-> IF Len(attachedFiles) > 0
                                     THEN <<attachedFiles>> ELSE << >>]
        updatedMessages == IF ~isRetry
                           THEN Append(currentSession.messages, userMessage)
                           ELSE WithoutErrors(currentSession.messages)
        newTitle       == IF ~isRetry /\ Len(currentSession.messages) = 0
                          THEN FirstTitle(messageContent, attachedFiles)
                          ELSE currentSession.title
        r              == getRelevantMemories(messageContent, memories,
                                              DefaultLimit)
    IN  /\ SubmitGuard(messageContent, currentFiles)
        /\ MessageCount(sessions) < MaxMessages \/ isRetry
        /\ sessions' = WithSession(sessions, currentSessionId,
                                   updatedMessages, newTitle)
        /\ input' = IF isRetry THEN input ELSE << >>
        /\ attachedFiles' = IF isRetry THEN attachedFiles ELSE << >>
        /\ isLoading' = TRUE
        /\ streamingContent' = << << >> >>
        /\ query' = messageContent
        /\ limit' = DefaultLimit
        /\ pc' = r.ret
        /\ queryWords' = r.queryWords
        /\ scored' = r.scored
        /\ sorted' = r.sorted
        /\ result' = r.result
        /\ request' = Append(request,
                        [currentSessionId  |-> currentSessionId,
                         messageContent    |-> messageContent,
                         message           |-> fullPrompt,
                         history           |-> History(updatedMessages),
                         memories          |-> memories,
                         relevantMemories  |-> r.result,
                         memoriesBlock     |-> MemoryBlock(r.result),
                         assistantContent  |-> << >>,
                         chunks            |-> 0])
        /\ UNCHANGED <<memories, currentSessionId>>

\* the form is submitted
Submit == handleSubmit(<< >>, << >>)

\* the Retry Generation button of an error message of the session shown
Retry ==
    LET messages == CurrentSession(sessions, currentSessionId).messages
        users    == SelectSeq(messages, LAMBDA m : m.role = "user")
    IN  /\ \E i \in 1..Len(messages) : messages[i].isError
        /\ users # << >>
        /\ handleSubmit(<<users[Len(users)].content>>, users[Len(users)].files)

\* request[k] without its position in the sequence
Others(k) == [i \in 1..(Len(request) - 1) |->
                 IF i < k THEN request[i] ELSE request[i + 1]]

\* one chunk of the stream of request k with text
StreamChunk(k, text) ==
    /\ k <= Len(request)
    /\ request[k].chunks < MaxChunks
    /\ LET content == request[k].assistantContent \o text
       IN  /\ request' = [request EXCEPT ![k].assistantContent = content,
                                         ![k].chunks = @ + 1]
           /\ streamingContent' = <<content>>
    /\ UNCHANGED <<memories, rankerVars, input, attachedFiles, sessions,
                   currentSessionId, isLoading>>

\* Variant: the reply goes to the session shown when the stream ends.
StreamEnd_ShownSession(k) ==
    /\ k <= Len(request)
    /\ sessions' = WithReply(sessions, currentSessionId,
                             [role |-> "model",
                              content |-> request[k].assistantContent,
                              isError |-> FALSE, files |-> << >>])
    /\ isLoading' = FALSE
    /\ streamingContent' = << >>
    /\ request' = Others(k)
    /\ UNCHANGED <<memories, rankerVars, input, attachedFiles,
                   currentSessionId>>

\* the stream of request k ends: the reply is appended, then the finally
\* block runs
StreamEnd(k) ==
    /\ k <= Len(request)
    /\ sessions' = WithReply(sessions, request[k].currentSessionId,
                             [role |-> "model",
                              content |-> request[k].assistantContent,
                              isError |-> FALSE, files |-> << >>])
    /\ isLoading' = FALSE
    /\ streamingContent' = << >>
    /\ request' = Others(k)
    /\ UNCHANGED <<memories, rankerVars, input, attachedFiles,
                   currentSessionId>>

\* Variant: the catch block without a finally block after it.
StreamError_NoFinally(k) ==
    /\ k <= Len(request)
    /\ sessions' = WithReply(sessions, request[k].currentSessionId,
                             [role |-> "model", content |-> ErrorText,
                              isError |-> TRUE, files |-> << >>])
    /\ request' = Others(k)
    /\ UNCHANGED <<memories, rankerVars, input, attachedFiles,
                   currentSessionId, isLoading, streamingContent>>

\* sendMessageStream or the stream of request k throws: the catch block
\* appends the error message, then the finally block runs
StreamError(k) ==
    /\ k <= Len(request)
    /\ sessions' = WithReply(sessions, request[k].currentSessionId,
                             [role |-> "model", content |-> ErrorText,
                              isError |-> TRUE, files |-> << >>])
    /\ isLoading' = FALSE
    /\ streamingContent' = << >>
    /\ request' = Others(k)
    /\ UNCHANGED <<memories, rankerVars, input, attachedFiles,
                   currentSessionId>>

\* the ids of the sessions of sess
SessionIds(sess) == {sess[i].id : i \in 1..Len(sess)}

\* [newSession, ...sess] of handleNewChat
WithNewSession(sess, newId) ==
    <<[id |-> newId, title |-> NewChatTitle, messages |-> << >>]>> \o sess

\* handleNewChat with newId drawn by Math.random; an id in use or awaited
\* by a request is not drawn again
handleNewChat(newId) ==
    /\ Len(sessions) < MaxSessions
    /\ newId \notin SessionIds(sessions)
    /\ \A k \in 1..Len(request) : request[k].currentSessionId # newId
    /\ sessions' = WithNewSession(sessions, newId)
    /\ currentSessionId' = newId
    /\ UNCHANGED <<memories, rankerVars, input, attachedFiles, isLoading,
                   streamingContent, request>>

\* the click on a session of the sidebar
SwitchSession(id) ==
    /\ id \in SessionIds(sessions)
    /\ currentSessionId' = id
    /\ UNCHANGED <<memories, rankerVars, input, attachedFiles, sessions,
                   isLoading, streamingContent, request>>

\* deleteSession(e, id); handleNewChat, called when no session is left,
\* reads the sessions of the render the click happened in
deleteSession(id, newId) ==
    LET newSessions == SelectSeq(sessions, LAMBDA s : s.id # id)
    IN  /\ id \in SessionIds(sessions)
        /\ IF Len(newSessions) = 0
           THEN /\ newId \notin SessionIds(sessions)
                /\ \A k \in 1..Len(request) :
                       request[k].currentSessionId # newId
                /\ sessions' = WithNewSession(sessions, newId)
                /\ currentSessionId' = newId
           ELSE /\ sessions' = newSessions
                /\ currentSessionId' = IF currentSessionId = id
                                       THEN newSessions[1].id
                                       ELSE currentSessionId
        /\ UNCHANGED <<memories, rankerVars, input, attachedFiles, isLoading,
                       streamingContent, request>>

NextChat ==
    \/ \E text \in ChatInputs : SetInput(text)
    \/ AttachFile(ChatFile)
    \/ \E newMemory \in NewMemoryInputs : AddMemory(newMemory)
    \/ \E idx \in DeleteIndices : DeleteMemory(idx)
    \/ Submit
    \/ Retry
    \/ \E k \in 1..Len(request) : \E text \in {T_ok} : StreamChunk(k, text)
    \/ \E k \in 1..Len(request) : StreamEnd(k)
    \/ \E k \in 1..Len(request) : StreamError(k)

SpecChat == InitChat /\ [][NextChat]_vars

----------------------------------------------------------------------------
(* The state machine of the sessions: a user without memories types one    *)
(* message text, submits and retries, and opens, switches and deletes      *)
(* sessions while the streams deliver, end or fail.                        *)

SessionInputs == {Q_user}

InitSessions ==
    /\ AppMounted
    /\ memories = << >>
    /\ query = << >>
    /\ limit = DefaultLimit
    /\ pc = "start"
    /\ queryWords = << >>
    /\ scored = << >>
    /\ sorted = << >>
    /\ result = << >>

\* the stream of some request ends or fails
StreamCompletes ==
    \/ \E k \in 1..Len(request) : StreamEnd(k)
    \/ \E k \in 1..Len(request) : StreamError(k)

NextSessions ==
    \/ \E text \in SessionInputs : SetInput(text)
    \/ Submit
    \/ Retry
    \/ \E k \in 1..Len(request) : \E text \in {T_ok} : StreamChunk(k, text)
    \/ \E k \in 1..Len(request) : StreamEnd(k)
    \/ \E k \in 1..Len(request) : StreamError(k)
    \/ \E newId \in NewIds : handleNewChat(newId)
    \/ \E id \in SessionIds(sessions) : SwitchSession(id)
    \/ \E id \in SessionIds(sessions) : \E newId \in NewIds :
          deleteSession(id, newId)

SpecSessions == InitSessions /\ [][NextSessions]_vars

\* a stream that was opened ends or fails in the end
SpecSessionsFair == SpecSessions /\ WF_vars(StreamCompletes)

----------------------------------------------------------------------------
(* Vocabulary of the properties                                            *)

Called == pc # "start"

N == Len(memories)

Min(a, b) == IF a < b THEN a ELSE b

\* the last k elements of s, in their order in s (0 <= k <= Len(s))
LastK(s, k) == [i \in 1..k |-> s[Len(s) - k + i]]

Reverse(s) == [i \in 1..Len(s) |-> s[Len(s) + 1 - i]]

\* query word w is one of the words of memory m
ExactMatch(w, m) ==
    ArrayIncludes(SplitSpaces(StripNonWord(toLowerCase(m))), w)

\* query word w occurs inside the lowercased text of memory m
SubstringMatch(w, m) == StringIncludes(toLowerCase(m), w)

\* no memory scored above 5 (scores are numerators over 5 * N)
NoneAboveThreshold == \A i \in 1..Len(scored) : scored[i].score <= 25 * N

\* what query word w contributes to the score of memory m
Contribution(w, m) ==
    IF ExactMatch(w, m) THEN 2 * Len(w)
    ELSE IF SubstringMatch(w, m) THEN Len(w)
    ELSE 0

RECURSIVE SumTo(_, _)
SumTo(f, k) == IF k = 0 THEN 0 ELSE f[k] + SumTo(f, k - 1)

\* the sum of the contributions of the query words to memory i
BaseScore(i) ==
    SumTo([j \in 1..Len(queryWords) |->
              Contribution(queryWords[j], memories[i])], Len(queryWords))

\* the number of query words (with repetitions) that match memory i
Matches(i) ==
    Cardinality({j \in 1..Len(queryWords) :
                    \/ ExactMatch(queryWords[j], memories[i])
                    \/ SubstringMatch(queryWords[j], memories[i])})

\* the lexical score of memory i after the density multiplier, times 5
Lexical(i) ==
    IF Matches(i) > 1 THEN BaseScore(i) * (5 + Matches(i))
    ELSE BaseScore(i) * 5

\* the recency term of memory i, times 5 * N
Recency(i) == scored[i].score - N * Lexical(i)

\* the record of memory i stands before the record of memory j in sorted
RankedBefore(i, j) ==
    \E a, b \in 1..Len(sorted) :
        a < b /\ sorted[a] = scored[i] /\ sorted[b] = scored[j]

\* C1: for a positive limit the result has at most limit elements, except
\* when the query has usable tokens and no memory scores above 5, where it
\* has exactly min(3, N) elements.
C1_LengthBound ==
    (Called /\ limit > 0) =>
        IF Tokenize(query) # << >> /\ NoneAboveThreshold
        THEN Len(result) = Min(3, N)
        ELSE Len(result) <= limit

C1_Witness ==
    /\ Called /\ limit = 1 /\ N >= 3
    /\ Tokenize(query) # << >> /\ NoneAboveThreshold
    /\ Len(result) = 3

\* C2: a query without usable tokens and a positive limit give the last
\* min(limit, N) memories in their original order.
C2_RecentFallback ==
    (Called /\ limit > 0 /\ Tokenize(query) = << >>) =>
        result = LastK(memories, Min(limit, N))

C2_Witness ==
    /\ Called /\ query = Q_stop /\ limit = 2 /\ N = 3
    /\ memories[1] # memories[3]
    /\ result = <<memories[2], memories[3]>>

\* C3: with no memories the result is empty for every query and limit.
C3_EmptyMemories == (Called /\ memories = << >>) => result = << >>

C3_Witness ==
    Called /\ memories = << >> /\ query = Q_cat /\ limit = 5 /\ result = << >>

\* C4: every element of the result is an element of memories.
C4_Membership ==
    Called =>
        \A k \in 1..Len(result) : \E i \in 1..N : memories[i] = result[k]

C4_Witness ==
    /\ pc = "line121" /\ Len(result) = 2
    /\ \E i \in 1..N : memories[i] = M_concat /\ result[1] = M_concat

\* C5: with usable tokens and no score above 5 the result is the last three
\* memories (all of them if N < 3) in original order, whatever limit is.
C5_NoMatchFallback ==
    (Called /\ Tokenize(query) # << >> /\ NoneAboveThreshold) =>
        result = LastK(memories, Min(3, N))

C5_Witness ==
    /\ Called /\ limit = 1 /\ N = 3 /\ query = Q_zebra
    /\ memories[1] # memories[2]
    /\ result = memories

\* C6: every memory returned by the ranked path matched a query word exactly
\* or as a substring; the recency term of every position is below 5.
C6_LexicalContribution ==
    (Called /\ queryWords # << >> /\ ~NoneAboveThreshold) =>
        /\ \A i \in 1..N : Recency(i) >= 0 /\ Recency(i) < 25 * N
        /\ \A k \in 1..Len(result) : \E j \in 1..Len(queryWords) :
              \/ ExactMatch(queryWords[j], result[k])
              \/ SubstringMatch(queryWords[j], result[k])

C6_Witness ==
    /\ pc = "line121" /\ N = 3 /\ limit = 5
    /\ query = Q_cat /\ memories[3] = M_dog
    /\ Len(result) > 0
    /\ \A k \in 1..Len(result) : result[k] # M_dog

\* "user"
W_user ==
    <<"u","s","e","r">>

\* "tell"
W_tell ==
    <<"t","e","l","l">>

\* "users"
W_users ==
    <<"u","s","e","r","s">>

\* "job"
W_job ==
    <<"j","o","b">>

\* "apple"
W_apple ==
    <<"a","p","p","l","e">>

\* C7 (as stated): for the five user facts, the query "Tell me about the
\* user's job" and limit 5, every memory matches "user" exactly, all five
\* exceed the threshold and the result is the list reversed.
C7_Original ==
    (Called /\ query = Q_job /\ memories = UserFacts /\ limit = 5) =>
        /\ \A i \in 1..N : ExactMatch(W_user, memories[i])
        /\ \A i \in 1..N : scored[i].score > 25 * N
        /\ result = Reverse(UserFacts)
        /\ \E k \in 1..Len(result) : result[k] = M_engineer

\* C7 (amended): for these inputs the query words are tell, users, job; no
\* memory matches any of them, every score is the recency term alone, none
\* exceeds 5, and the result is the last three memories in original order,
\* which does not contain "User is a software engineer".
C7_Amended ==
    (Called /\ query = Q_job /\ memories = UserFacts /\ limit = 5) =>
        /\ queryWords = <<W_tell, W_users, W_job>>
        /\ \A i \in 1..N : Matches(i) = 0 /\ 5 * scored[i].score = 25 * N * (i - 1)
        /\ NoneAboveThreshold
        /\ result = <<M_paris, M_concise, M_spicy>>
        /\ \A k \in 1..Len(result) : result[k] # M_engineer

C7_Witness ==
    /\ Called /\ query = Q_job /\ memories = UserFacts /\ limit = 5
    /\ pc = "line125" /\ Len(result) = 3

\* C8: of two memories with equal lexical scores the later one has the
\* strictly higher final score and is ranked first; "widget" over
\* ["widget one", "widget two"] with limit 1 returns ["widget two"].
C8_RecencyBreaksTies ==
    /\ (Called /\ queryWords # << >>) =>
          \A i, j \in 1..N :
              (i < j /\ Lexical(i) = Lexical(j)) =>
                  /\ scored[j].score > scored[i].score
                  /\ RankedBefore(j, i)
    /\ (Called /\ queryWords # << >>) =>
          /\ Recency(1) = 0
          /\ \A i \in 1..(N - 1) : Recency(i) < Recency(i + 1)
    /\ (Called /\ query = Q_widget /\ memories = <<M_widget1, M_widget2>>
          /\ limit = 1) => result = <<M_widget2>>

C8_Witness ==
    /\ Called /\ query = Q_widget /\ memories = <<M_widget1, M_widget2>>
    /\ limit = 1 /\ Lexical(1) = Lexical(2) /\ Lexical(1) > 0
    /\ result = <<M_widget2>>

\* C9: for a query with one usable word w, a memory holding w as a word has
\* lexical score 2 * len(w) and one holding it only inside a longer word
\* has len(w); the first outscores the second whenever it is not the
\* earlier of the two, and of two such memories alone, in either order,
\* limit 1 returns the first, as for "apple" over "I like apple pie" and
\* "I like an application".
C9_ExactOverSubstring ==
    /\ (Called /\ Len(queryWords) = 1) =>
          LET w == queryWords[1]
              Exact(i) == ExactMatch(w, memories[i])
              SubOnly(i) == ~ExactMatch(w, memories[i])
                              /\ SubstringMatch(w, memories[i])
          IN  /\ \A i \in 1..N :
                    /\ Exact(i) => scored[i].score = 5 * N * 2 * Len(w) + 25 * (i - 1)
                    /\ SubOnly(i) => scored[i].score = 5 * N * Len(w) + 25 * (i - 1)
              /\ \A i, j \in 1..N :
                    (Exact(i) /\ SubOnly(j) /\ i > j) =>
                        scored[i].score > scored[j].score /\ RankedBefore(i, j)
              /\ \A i, j \in 1..N :
                    (N = 2 /\ Exact(i) /\ SubOnly(j) /\ limit = 1) =>
                        result = <<memories[i]>>
    /\ (Called /\ query = Q_apple /\ limit = 1
          /\ memories \in {<<M_applepie, M_application>>,
                           <<M_application, M_applepie>>}) =>
          result = <<M_applepie>>

C9_Witness ==
    /\ Called /\ query = Q_cat /\ limit = 1
    /\ memories = <<M_catnap, M_concat>>
    /\ ExactMatch(queryWords[1], memories[1])
    /\ ~ExactMatch(queryWords[1], memories[2])
    /\ SubstringMatch(queryWords[1], memories[2])
    /\ result = <<M_catnap>>

\* C10: the lexical score of a memory matching k query words is multiplied
\* by (1 + 0.2 * k) exactly when k > 1; a memory matching both of two query
\* words can thereby outscore, recency apart, one whose single match is the
\* longer word.
C10_DensityBonus ==
    (Called /\ queryWords # << >>) =>
        \A i \in 1..N :
            /\ Matches(i) > 1 =>
                  scored[i].score = N * BaseScore(i) * (5 + Matches(i)) + 25 * (i - 1)
            /\ Matches(i) <= 1 =>
                  scored[i].score = N * BaseScore(i) * 5 + 25 * (i - 1)

C10_Witness ==
    /\ Called /\ query = Q_both /\ memories = <<M_applepie, M_pinecat>>
    /\ Matches(2) = 2 /\ Matches(1) = 1
    /\ ExactMatch(W_apple, memories[1])
    /\ BaseScore(2) < BaseScore(1)
    /\ scored[2].score - 25 * 1 > scored[1].score - 25 * 0

\* "coffee"
W_coffee ==
    <<"c","o","f","f","e","e">>

\* the distinct query words that match memory i
DistinctMatches(i) ==
    {queryWords[j] : j \in {k \in 1..Len(queryWords) :
                              \/ ExactMatch(queryWords[k], memories[i])
                              \/ SubstringMatch(queryWords[k], memories[i])}}

\* C11: the density multiplier is applied to a memory only when more than
\* one distinct query word matches it; a memory matched by one distinct
\* word, repeated or not in the query, keeps its unmultiplied score.
C11_DistinctDensity ==
    (Called /\ queryWords # << >>) =>
        \A i \in 1..N :
            Cardinality(DistinctMatches(i)) <= 1 =>
                scored[i].score = N * BaseScore(i) * 5 + 25 * (i - 1)

\* C12: a call leaves its arguments as they were: memories holds the same
\* elements in the same order after the call, on every return path.
C12_ArgumentsUnchanged ==
    [][memories' = memories /\ query' = query /\ limit' = limit]_vars

C12_Witness ==
    /\ pc = "line121" /\ N = 3
    /\ sorted[1].memory # memories[1]
    /\ Len(result) = 1 /\ result[1] # memories[1]

ReturnLines == {"line66", "line78", "line121", "line125"}

\* C14: the function is total: for every choice of query, memories and
\* integer limit (zero and negative included) the call ends at one of the
\* four return statements, never in an error, and yields a sequence of
\* strings.
C14_Total ==
    /\ pc \in ReturnLines \cup {"start"}
    /\ result \in Seq(Seq(STRING))
    /\ Len(result) <= N

C14_Witness ==
    /\ pc = "line121" /\ limit = 0 - 1 /\ N = 3
    /\ Len(result) = 1 /\ Len(sorted) = 3
    /\ sorted[2].score > 25 * N /\ sorted[3].score <= 25 * N

\* the number of positions of seq that hold r
Occurrences(r, seq) == Cardinality({i \in 1..Len(seq) : seq[i] = r})

\* the records of sorted whose score is above 5, in the order of sorted
KeptRecords == SelectSeq(sorted, LAMBDA m : m.score > 25 * N)

\* C15: on the ranked path the result is the first limit memories of the
\* scored memories sorted by final score descending and restricted to
\* scores above 5: scores along the result do not increase and no memory
\* left out by the limit scores higher than one that is returned.
C15_TopByScore ==
    (Called /\ queryWords # << >> /\ ~NoneAboveThreshold /\ limit >= 0) =>
        /\ Len(sorted) = N
        /\ \A i \in 1..N : Occurrences(scored[i], sorted) = Occurrences(scored[i], scored)
        /\ \A a \in 1..(N - 1) : sorted[a].score >= sorted[a + 1].score
        /\ Len(result) = Min(limit, Len(KeptRecords))
        /\ \A k \in 1..Len(result) : result[k] = KeptRecords[k].memory
        /\ \A a \in 1..Len(result) : \A b \in (Len(result) + 1)..Len(KeptRecords) :
              KeptRecords[b].score <= KeptRecords[a].score

C15_Witness ==
    /\ pc = "line121" /\ limit = 2 /\ N = 3
    /\ Len(KeptRecords) = 3 /\ Len(result) = 2
    /\ KeptRecords[1].score > KeptRecords[2].score
    /\ KeptRecords[2].score > KeptRecords[3].score
    /\ result[1] = memories[2] /\ result[1] # memories[3] /\ result[1] # memories[1]

\* "about"
W_about ==
    <<"a","b","o","u","t">>

\* the lines "k. m", "k+1. m'", ... of the memories of s, joined by newlines
RECURSIVE NumberedFrom(_, _)
NumberedFrom(k, s) ==
    IF s = << >> THEN << >>
    ELSE <<<<"0","1","2","3","4","5","6","7","8","9">>[k + 1], ".", " ">>
           \o Head(s)
           \o (IF Tail(s) = << >> THEN << >>
               ELSE <<"\n">> \o NumberedFrom(k + 1, Tail(s)))

\* the last user message of the session shown
LastUserMessage ==
    LET messages == CurrentSession(sessions, currentSessionId).messages
        users    == SelectSeq(messages, LAMBDA m : m.role = "user")
    IN  IF users = << >> THEN << >> ELSE <<users[Len(users)].content>>

\* a step that starts a request
StartsRequest == request = << >> /\ request' # << >>

\* C16: every submitted turn makes one ranker call, with the text of the
\* user's message as the query (the typed input, or on a retry the last
\* user message), never the prompt that carries the attached files, with
\* the whole memory list of that moment and the default limit 5; no other
\* step calls the ranker.  While the request is in flight its system
\* instruction carries what that call returned: at most 5 memories, as the
\* lines "1. ", "2. ", ... in the order of the result after the header, and
\* no memories block at all exactly when the result is empty.
C16_RankerPerTurn ==
    /\ [](request # << >> =>
            LET rq  == request[1]
                rel == rq.relevantMemories
            IN  /\ pc \in ReturnLines
                /\ query = rq.messageContent
                /\ limit = 5
                /\ result = rel
                /\ rel = getRelevantMemories(query, rq.memories, 5).result
                /\ rq.message = query
                     \/ /\ Len(rq.message) > Len(QuestionLabel) + Len(query)
                        /\ LastK(rq.message, Len(QuestionLabel) + Len(query))
                             = QuestionLabel \o query
                /\ Len(rel) <= 5
                /\ rq.memoriesBlock = << >> <=> rel = << >>
                /\ rel # << >> =>
                     rq.memoriesBlock = MemoriesHeader \o NumberedFrom(1, rel))
    /\ [][IF StartsRequest
          THEN /\ request'[1].memories = memories
               /\ query' = input \/ <<query'>> = LastUserMessage
          ELSE UNCHANGED rankerVars]_vars

C16_Witness ==
    /\ request # << >>
    /\ Len(request[1].memories) = 6
    /\ pc = "line121"
    /\ Len(result) = 5
    /\ query = Q_user
    /\ request[1].memories = UserFacts \o <<M_dog>>
    /\ result = Reverse(UserFacts)
    /\ request[1].message # query
    /\ Len(request[1].memoriesBlock) > Len(MemoriesHeader)

\* C17 (as stated): the query "Tell me about the user's job" yields the
\* query words tell, about, user, job.
C17_Original ==
    (Called /\ query = Q_job /\ N > 0) =>
        {queryWords[j] : j \in 1..Len(queryWords)} = {W_tell, W_about, W_user, W_job}

\* C17 (amended): the query "Tell me about the user's job" yields the query
\* words tell, users, job, in this order: "about" is a stop word and
\* "user's" becomes "users" when the apostrophe is stripped.
C17_Amended ==
    (Called /\ query = Q_job /\ N > 0) =>
        queryWords = <<W_tell, W_users, W_job>>

C17_Witness ==
    /\ Called /\ query = Q_job /\ N = 2 /\ memories[1] = M_widget1
    /\ Len(queryWords) = 3 /\ queryWords[2] = W_users

\* the pieces of the query that the filter removes
RemovedTokens ==
    {w \in {SplitSpaces(StripNonWord(toLowerCase(query)))[j] :
              j \in 1..Len(SplitSpaces(StripNonWord(toLowerCase(query))))} :
        \A k \in 1..Len(queryWords) : queryWords[k] # w}

\* C18: every query word is lowercase, made of word characters only, at
\* least 3 long and outside the 19-word stop-word set; a memory that holds
\* only removed tokens of the query gets no lexical score.
C18_QueryWordsFiltered ==
    Called =>
        /\ Cardinality(stopWords) = 19
        /\ \A j \in 1..Len(queryWords) :
              /\ Len(queryWords[j]) >= 3
              /\ queryWords[j] \notin stopWords
              /\ \A c \in 1..Len(queryWords[j]) :
                    queryWords[j][c] \in LowerLetters \cup Digits \cup {"_"}
        /\ queryWords # << >> =>
              \A i \in 1..N : Matches(i) = 0 => scored[i].score = 25 * (i - 1)

C18_Witness ==
    /\ Called /\ query = Q_thecat /\ memories = <<M_thedog, M_catnap>>
    /\ queryWords = <<<<"c","a","t">>>>
    /\ <<"t","h","e">> \in RemovedTokens /\ <<"t","o">> \in RemovedTokens
    /\ ExactMatch(<<"t","h","e">>, memories[1])
    /\ ExactMatch(<<"t","o">>, memories[1])
    /\ scored[1].score = 0

\* C19: each (query word, memory) pair contributes exactly one of
\* 2 * len(w) with one match counted (w is a word of the memory), len(w)
\* with one match counted (w is not a word of it but occurs in its
\* lowercased text), or nothing with no match counted; a word that is both
\* a word of the memory and a substring of its text contributes 2 * len(w)
\* only.
C19_ContributionCases ==
    (Called /\ queryWords # << >>) =>
        \A i \in 1..N :
            LET ex(j)  == ExactMatch(queryWords[j], memories[i])
                sub(j) == SubstringMatch(queryWords[j], memories[i])
                add    == [j \in 1..Len(queryWords) |->
                             CASE ex(j) -> 2 * Len(queryWords[j])
                               [] ~ex(j) /\ sub(j) -> Len(queryWords[j])
                               [] OTHER -> 0]
                cnt    == [j \in 1..Len(queryWords) |->
                             IF ex(j) \/ sub(j) THEN 1 ELSE 0]
                total  == SumTo(add, Len(queryWords))
                count  == SumTo(cnt, Len(queryWords))
                lex    == scored[i].score - 25 * (i - 1)
            IN  /\ lex = N * (IF count > 1 THEN total * (5 + count) ELSE total * 5)
                /\ (Len(queryWords) = 1 /\ ex(1) /\ sub(1)) =>
                      lex = N * 5 * 2 * Len(queryWords[1])

C19_Witness ==
    /\ Called /\ query = Q_cat /\ memories = <<M_catnap, M_concat, M_dog>>
    /\ ExactMatch(queryWords[1], memories[1])
    /\ SubstringMatch(queryWords[1], memories[1])
    /\ ~ExactMatch(queryWords[1], memories[2])
    /\ SubstringMatch(queryWords[1], memories[2])
    /\ ~SubstringMatch(queryWords[1], memories[3])
    /\ scored[1].score = 90 /\ scored[2].score = 70 /\ scored[3].score = 50

\* C20: the threshold is strict: a memory whose final score is exactly 5 is
\* not part of the ranked result, and when no memory scores above 5 the
\* no-match fallback is taken.
C20_StrictThreshold ==
    (Called /\ queryWords # << >>) =>
        /\ NoneAboveThreshold => pc = "line125"
        /\ pc = "line121" =>
              /\ \A k \in 1..Len(result) : \E i \in 1..N :
                    memories[i] = result[k] /\ scored[i].score > 25 * N
              /\ Len(result) <= Cardinality({i \in 1..N : scored[i].score > 25 * N})

C20_Witness ==
    /\ Called /\ query = Q_cat
    /\ memories = <<M_dog, M_dog, M_concat, M_dog, M_dog>>
    /\ ~ExactMatch(queryWords[1], memories[3])
    /\ SubstringMatch(queryWords[1], memories[3])
    /\ Len(queryWords[1]) = 3
    /\ scored[3].score = 25 * N
    /\ pc = "line125"

\* C21: memories with equal final score keep their order of the memory list
\* in sorted (the earlier one stands first), and in the ranked result the
\* later one of a tie is never returned without the earlier one before it,
\* so a limit that cuts a tie keeps the earlier memory.
C21_StableTies ==
    (Called /\ queryWords # << >>) =>
        \A i, j \in 1..N :
            (i < j /\ scored[i].score = scored[j].score) =>
                /\ RankedBefore(i, j)
                /\ ~RankedBefore(j, i)
                /\ (pc = "line121" /\ limit >= 0) =>
                      \A k \in 1..Len(result) :
                          KeptRecords[k] = scored[j] =>
                              \E h \in 1..(k - 1) : KeptRecords[h] = scored[i]

C21_Witness ==
    /\ pc = "line121" /\ query = Q_cat /\ limit = 1
    /\ memories = <<M_catnap, M_dog, M_dog, M_concat, M_dog>>
    /\ scored[1].score = scored[4].score
    /\ scored[4].score > 25 * N
    /\ Len(KeptRecords) = 2
    /\ result = <<M_catnap>>

\* C22: for limit = 0 every call returns the empty sequence; in particular
\* a query without usable tokens over non-empty memories returns nothing.
C22_ZeroLimitEmpty ==
    (Called /\ limit = 0) => result = << >>

\* C23: the result neither duplicates nor deduplicates: a text occurs in the
\* result at most as often as in memories, and when the limit does not cut
\* the ranked result a text occurs in it once for every position of
\* memories that holds it with a score above 5.
C23_NoDedupNoDup ==
    Called =>
        /\ \A k \in 1..Len(result) :
              Occurrences(result[k], result) <= Occurrences(result[k], memories)
        /\ (pc = "line121" /\ limit >= N) =>
              \A i \in 1..N :
                  Occurrences(memories[i], result)
                    = Cardinality({j \in 1..N : /\ memories[j] = memories[i]
                                                /\ scored[j].score > 25 * N})

C23_Witness ==
    /\ pc = "line121" /\ N = 3 /\ limit = 3
    /\ memories[1] = memories[3] /\ memories[1] # memories[2]
    /\ Occurrences(memories[1], result) = 2
    /\ Len(result) = 2

\* C25: for a positive limit the result is empty exactly when memories is
\* empty; with at least one memory each of the three return paths after
\* the guard returns at least one memory.
C25_EmptyIffNoMemories ==
    (Called /\ limit > 0) =>
        /\ result = << >> <=> memories = << >>
        /\ pc = "line66" <=> memories = << >>
        /\ pc \in {"line78", "line121", "line125"} => Len(result) >= 1

C25_Witness ==
    /\ pc = "line125" /\ limit = 1 /\ N = 1
    /\ queryWords # << >>
    /\ result = memories

\* some query word is one of the words of memory i
HasExactWord(i) ==
    \E j \in 1..Len(queryWords) : ExactMatch(queryWords[j], memories[i])

\* C26: a memory that holds a query word as one of its words scores at
\* least 6, above the threshold, wherever it stands; so when there is such
\* a memory the ranked return is taken, and for limit >= 1 the result is
\* not empty and holds only memories matched by some query word.
C26_ExactWordAboveThreshold ==
    (Called /\ queryWords # << >> /\ \E i \in 1..N : HasExactWord(i)) =>
        /\ \A j \in 1..Len(queryWords) : Len(queryWords[j]) >= 3
        /\ \A i \in 1..N :
              HasExactWord(i) =>
                  /\ Lexical(i) >= 30
                  /\ scored[i].score >= 30 * N
                  /\ scored[i].score > 25 * N
        /\ pc = "line121"
        /\ limit >= 1 =>
              /\ result # << >>
              /\ \A k \in 1..Len(result) :
                    \E i \in 1..N : memories[i] = result[k] /\ Matches(i) >= 1

C26_Witness ==
    /\ pc = "line121" /\ query = Q_cat /\ limit = 3 /\ N = 3
    /\ HasExactWord(1) /\ Matches(2) = 0 /\ Matches(3) = 0
    /\ scored[1].score = 30 * N
    /\ scored[3].score > scored[2].score
    /\ result = <<memories[1]>>

\* the messages of the session shown
ShownMessages == CurrentSession(sessions, currentSessionId).messages

\* C24: at most one request is in flight at any time, and isLoading is true
\* exactly while one is; a step that starts a request (a submit or a retry)
\* is taken only when isLoading is false and no request is in flight,
\* whatever the user does with the sessions in between.
C24_OneInFlight ==
    /\ [](Len(request) <= 1 /\ (isLoading <=> request # << >>))
    /\ [][Len(request') > Len(request) =>
             ~isLoading /\ request = << >> /\ isLoading']_vars

C24_Witness ==
    /\ Len(request) = 1 /\ isLoading
    /\ request[1].currentSessionId # currentSessionId
    /\ \E i \in 1..Len(ShownMessages) : ShownMessages[i].isError
    /\ \E i \in 1..Len(ShownMessages) : ShownMessages[i].role = "user"

\* C27: deleteSession(id) removes the session with that id from the list;
\* when it is the only session, the list afterwards is one fresh empty
\* 'New Chat' session, which is the session shown.
C27_DeleteRemoves ==
    [][\A id \in SessionIds(sessions) : \A newId \in NewIds :
          deleteSession(id, newId) =>
              /\ id \notin SessionIds(sessions')
              /\ Len(sessions) = 1 =>
                    /\ sessions' = <<[id |-> newId, title |-> NewChatTitle,
                                      messages |-> << >>]>>
                    /\ currentSessionId' = newId]_vars

\* the client is idle: nothing is loading, nothing is streamed or awaited
Idle == ~isLoading /\ streamingContent = << >> /\ request = << >>

\* a step in which the stream of a request ends or fails
Completes == Len(request') < Len(request)

\* the positions of the session list whose session the step changes
ChangedSessions ==
    {i \in 1..Len(sessions) : sessions'[i] # sessions[i]}

\* the step appends one model message to the session at position i, after
\* dropping that session's error messages, and leaves the rest of it
AppendsModelMessage(i) ==
    /\ sessions'[i].id = sessions[i].id
    /\ sessions'[i].title = sessions[i].title
    /\ Len(sessions'[i].messages) = Len(WithoutErrors(sessions[i].messages)) + 1
    /\ SubSeq(sessions'[i].messages, 1, Len(sessions'[i].messages) - 1)
         = WithoutErrors(sessions[i].messages)
    /\ sessions'[i].messages[Len(sessions'[i].messages)].role = "model"

\* C28 as stated: every accepted submit leads to the idle state, and the
\* step that ends its stream, by completion or by failure, clears isLoading
\* and streamingContent and appends exactly one model message.
C28_Original ==
    /\ request # << >> ~> Idle
    /\ [][Completes =>
             /\ ~isLoading' /\ streamingContent' = << >>
             /\ Len(sessions') = Len(sessions)
             /\ Cardinality(ChangedSessions) = 1
             /\ \A i \in ChangedSessions : AppendsModelMessage(i)]_vars

\* C28 amended: every accepted submit leads to the idle state; the step
\* that ends its stream clears isLoading and streamingContent and appends
\* exactly one model message to the session the request was submitted in
\* when that session is still in the list, and changes no session when it
\* has been deleted in the meantime.
C28_Amended ==
    /\ request # << >> ~> Idle
    /\ [][Completes =>
             /\ ~isLoading' /\ streamingContent' = << >>
             /\ Len(sessions') = Len(sessions)
             /\ IF \E k \in 1..Len(request) :
                       request[k].currentSessionId \in SessionIds(sessions)
                THEN /\ Cardinality(ChangedSessions) = 1
                     /\ \A i \in ChangedSessions : AppendsModelMessage(i)
                ELSE sessions' = sessions]_vars

C28_Witness ==
    /\ Idle
    /\ Len(sessions) = 2
    /\ \E i \in 1..2 :
          /\ Len(sessions[i].messages) = 2
          /\ sessions[i].messages[1].role = "user"
          /\ sessions[i].messages[2].role = "model"
          /\ sessions[i].messages[2].content = T_ok
          /\ sessions[3 - i].messages = << >>

\* the error messages of a session
ErrorsOf(session) == SelectSeq(session.messages, LAMBDA m : m.isError)

\* C29: a session never holds more than one error message, and an error
\* message left by a step that ends a stream is the last message of its
\* session: the step drops the errors that were there before it appends.
C29_AtMostOneError ==
    /\ [](\A i \in 1..Len(sessions) : Len(ErrorsOf(sessions[i])) <= 1)
    /\ [][Completes =>
             \A i \in ChangedSessions :
                 \A h \in 1..(Len(sessions'[i].messages) - 1) :
                     ~sessions'[i].messages[h].isError]_vars

C29_Witness ==
    /\ Idle
    /\ \E i \in 1..Len(sessions) :
          /\ Len(sessions[i].messages) = 3
          /\ sessions[i].messages[1].role = "user"
          /\ sessions[i].messages[2].role = "user"
          /\ sessions[i].messages[3].isError

\* C30: a request remembers the session that is shown when it is submitted;
\* the step that ends its stream appends the reply or the error message to
\* the session with that id, whichever session is shown by then, and
\* changes no other session.
C30_ReplyToSubmittingSession ==
    /\ [][Len(request') > Len(request) =>
             request'[Len(request')].currentSessionId = currentSessionId]_vars
    /\ [][Completes =>
             \A k \in 1..Len(request) : \A i \in 1..Len(sessions) :
                 IF sessions[i].id = request[k].currentSessionId
                 THEN AppendsModelMessage(i)
                 ELSE sessions'[i] = sessions[i]]_vars

C30_Witness ==
    /\ Idle
    /\ Len(sessions) = 2
    /\ currentSessionId = sessions[1].id
    /\ sessions[1].messages = << >>
    /\ Len(sessions[2].messages) = 2
    /\ sessions[2].messages[1].role = "user"
    /\ sessions[2].messages[2].isError

====
